---- MODULE Spec2Model ----
(***************************************************************************)
(* Action hub: the Google Drive OAuth action (google_drive.ts) and the     *)
(* SFTP action (sftp.ts).                                                   *)
(*                                                                         *)
(* Every invocation of an action method is an asynchronous function.  It   *)
(* runs in a request slot: one action starts it and runs the code up to    *)
(* its first await on the outside world, and one action per awaited call   *)
(* delivers that call's outcome and runs the code up to the next await.    *)
(* The outcomes of the outside world (Drive API, token endpoint, the       *)
(* caller's return URL, the SFTP server, the encryption service) are       *)
(* chosen nondeterministically.                                            *)
(***************************************************************************)
EXTENDS Integers, Sequences, FiniteSets, TLC

VARIABLES inv,       \* request slot -> the invocation running or last run in it
          registry   \* the registered action instances and their fields

vars == <<inv, registry>>

(***************************************************************************)
(* Bounds                                                                  *)
(***************************************************************************)
\* Pages of files.list a provider serves for one listing (nextPageToken chain).
MaxPages == 2

\* Rounds of form negotiation that follow the first one.
MaxRounds == 2

(***************************************************************************)
(* JavaScript values                                                       *)
(***************************************************************************)
UNDEF == "undefined"

\* Truthiness of a string-or-undefined value.
Truthy(v) == v # UNDEF /\ v # ""

\* a || b
OrElse(a, b) == IF Truthy(a) THEN a ELSE b

(***************************************************************************)
(* JSON.  A text is a record: t = "undef" (no string at all), "empty" (the *)
(* empty string), "bad" (not JSON), "null" (the text null) or "obj" (an    *)
(* object literal, kv its members in textual order).                       *)
(***************************************************************************)
Keys == {"tokens", "redirect", "stateurl", "extra"}

TUndef == [t |-> "undef", kv |-> <<>>]
TEmpty == [t |-> "empty", kv |-> <<>>]
TBad   == [t |-> "bad",   kv |-> <<>>]
TNull  == [t |-> "null",  kv |-> <<>>]
TObj(kv) == [t |-> "obj", kv |-> kv]

\* !s for a string-or-undefined s
TruthyText(s) == s.t \notin {"undef", "empty"}

RECURSIVE Lookup(_, _)
\* The value a parsed object holds for key k: the last member named k wins.
Lookup(kv, k) ==
  IF kv = <<>> THEN UNDEF
  ELSE LET last == kv[Len(kv)]
       IN IF last[1] = k THEN last[2] ELSE Lookup(SubSeq(kv, 1, Len(kv) - 1), k)

\* JSON.parse: throws on text that is not JSON; null parses to null.
JSONparse(s) ==
  [ok     |-> s.t \in {"null", "obj"},
   isNull |-> s.t = "null",
   obj    |-> [k \in Keys |-> Lookup(s.kv, k)]]

RECURSIVE DropUndefined(_)
DropUndefined(kv) ==
  IF kv = <<>> THEN <<>>
  ELSE IF kv[1][2] = UNDEF THEN DropUndefined(Tail(kv))
       ELSE <<kv[1]>> \o DropUndefined(Tail(kv))

\* JSON.stringify of an object literal: members in property order, members
\* whose value is undefined left out.
JSONstringify(kv) == TObj(DropUndefined(kv))

(***************************************************************************)
(* Hub.ActionCrypto: authenticated encryption under the hub's key.         *)
(***************************************************************************)
HubKey == "hub-key"
ForeignKey == "foreign-key"

NoBlob == [key |-> "none", plain |-> TUndef, intact |-> FALSE]

encrypt(plaintext) == [key |-> HubKey, plain |-> plaintext, intact |-> TRUE]

decrypt(blob) ==
  IF blob.key = HubKey /\ blob.intact
  THEN [ok |-> TRUE, plaintext |-> blob.plain, err |-> UNDEF]
  ELSE [ok |-> FALSE, plaintext |-> TUndef, err |-> "decrypt-error"]

\* The blob as an attacker or a transmission fault changes it.
Tamper(blob) == [blob EXCEPT !.intact = FALSE]

(***************************************************************************)
(* Errors                                                                  *)
(***************************************************************************)
\* A vendor error: message, status, code and reason (0 / UNDEF when absent).
NoErr == [message |-> <<>>, status |-> 0, code |-> 0, reason |-> UNDEF]

ProviderErrors ==
  { [message |-> <<"Invalid Credentials">>, status |-> 401, code |-> 401, reason |-> "authError"],
    [message |-> <<"Forbidden">>,           status |-> 403, code |-> 403, reason |-> UNDEF],
    [message |-> <<"Backend Error">>,       status |-> 500, code |-> 0,   reason |-> UNDEF] }

SftpErrors ==
  { [message |-> <<"ECONNREFUSED">>, status |-> 0, code |-> 0, reason |-> UNDEF],
    [message |-> <<"Permission denied">>, status |-> 0, code |-> 0, reason |-> UNDEF] }

\* HTTP_ERROR.bad_request and HTTP_ERROR.internal
HTTP_ERROR ==
  [bad_request |-> [status |-> "BAD_REQUEST", code |-> 400, description |-> "Bad Request"],
   internal    |-> [status |-> "INTERNAL",    code |-> 500, description |-> "Internal"]]

\* The structured error of an ActionResponse (none: http_code 0).
NoError ==
  [http_code |-> 0, status_code |-> UNDEF, message |-> <<>>,
   location |-> UNDEF, documentation_url |-> UNDEF]

errorWith(errorType, message) ==
  [http_code |-> errorType.code, status_code |-> errorType.status,
   message |-> <<errorType.description>> \o message,
   location |-> "ActionContainer", documentation_url |-> "TODO"]

(***************************************************************************)
(* Hub.ActionResponse, Hub.ActionForm                                      *)
(***************************************************************************)
\* new Hub.ActionResponse(): success unless told otherwise.
ActionResponse ==
  [success |-> TRUE, message |-> <<>>, state |-> UNDEF,
   error |-> NoError, webhookId |-> UNDEF]

NoUrl == [base |-> UNDEF, action |-> UNDEF, state |-> NoBlob]

\* A form field; attributes a field does not set are UNDEF / FALSE / <<>>.
Field(name, type) ==
  [name |-> name, type |-> type, options |-> <<>>, default |-> UNDEF,
   interactive |-> FALSE, required |-> FALSE, oauth_url |-> NoUrl]

\* new Hub.ActionForm(): no fields, no state.
ActionForm == [fields |-> <<>>, state |-> TUndef, hasState |-> FALSE]

(***************************************************************************)
(* Hub.ActionRequest                                                       *)
(***************************************************************************)
NoFormParams ==
  [filename |-> UNDEF, search |-> UNDEF, drive |-> UNDEF, folder |-> UNDEF,
   fetch |-> UNDEF, format |-> UNDEF, address |-> UNDEF, username |-> UNDEF,
   password |-> UNDEF]

NoAttachment == [present |-> FALSE, dataBuffer |-> UNDEF, mime |-> UNDEF]

NoRequest ==
  [params      |-> [state_json |-> TUndef, state_url |-> UNDEF],
   formParams  |-> NoFormParams,
   attachment  |-> NoAttachment,
   webhookId   |-> UNDEF,
   urlParams   |-> [state |-> NoBlob, code |-> UNDEF],
   redirectUri |-> UNDEF]

\* request.suggestedFilename(): a name derived from the attachment, none
\* when the request carries no attachment.
suggestedFilename(request) ==
  IF request.attachment.present THEN "looker_file.csv" ELSE UNDEF

(***************************************************************************)
(* Replies of the outside world to an awaited call                         *)
(***************************************************************************)
\* The token sets the provider's token endpoint may issue.
TokenSets == {"T1", "T2"}

Reply ==
  [ok |-> TRUE, err |-> NoErr, drives |-> <<>>, hasDrives |-> FALSE,
   files |-> <<>>, nextPageToken |-> UNDEF, tokens |-> UNDEF]

Failure(e) == [Reply EXCEPT !.ok = FALSE, !.err = e]

DriveLists == { <<>>, <<[id |-> "d1", name |-> "Shared"]>> }

FileLists ==
  { <<>>,
    <<[id |-> "f1", name |-> "Reports"]>>,
    <<[id |-> "f2", name |-> UNDEF], [id |-> "f3", name |-> "Exports"]>> }

DrivesReplies ==
  { [Reply EXCEPT !.hasDrives = TRUE, !.drives = ds] : ds \in DriveLists }
  \cup {Reply} \cup { Failure(e) : e \in ProviderErrors }

\* A page may name a next page only while the provider has pages left.
FilesReplies(page) ==
  { [Reply EXCEPT !.files = fs, !.nextPageToken = t] :
      fs \in FileLists,
      t \in {UNDEF} \cup (IF page < MaxPages THEN {"next-page"} ELSE {}) }
  \cup { Failure(e) : e \in ProviderErrors }

ProbeReplies == {Reply} \cup { Failure(e) : e \in ProviderErrors }

CreateReplies == {Reply} \cup { Failure(e) : e \in ProviderErrors }

TokenReplies ==
  { [Reply EXCEPT !.tokens = t] : t \in TokenSets }
  \cup { Failure([NoErr EXCEPT !.message = <<"invalid_grant">>, !.status = 400]) }

PostReplies == {Reply, Failure([NoErr EXCEPT !.message = <<"ECONNRESET">>])}

EncryptReplies == {Reply, Failure([NoErr EXCEPT !.message = <<"no cipher key">>])}

SftpReplies == {Reply} \cup { Failure(e) : e \in SftpErrors }

\* No consent URL.
NoAuthUrl ==
  [redirect_uri |-> UNDEF, access_type |-> UNDEF, scope |-> <<>>,
   prompt |-> UNDEF, state |-> NoBlob]

(***************************************************************************)
(* Request slots                                                           *)
(***************************************************************************)
Slots == {"r1"}

NoLocals ==
  [tokens |-> UNDEF, redirect |-> UNDEF, filename |-> UNDEF,
   fields |-> <<>>, files |-> <<>>, page |-> 0, options |-> <<>>,
   plaintext |-> TUndef, client |-> [built |-> FALSE, redirect |-> UNDEF, tokens |-> UNDEF]]

NoOrigin == [tokens |-> UNDEF, redirect |-> UNDEF]

\* No invocation running.  op: the method; pc: the await it is suspended at;
\* status: pending / resolved / rejected; calls: the calls made to the
\* outside world, in order; logs: winston lines; resp / form / ret / url: the
\* value the promise resolved with; err: the reason it was rejected with; thrown:
\* an exception nobody caught.  The remaining fields are history: replies
\* (outcomes delivered so far), origin (the tokens and redirect a chain of
\* form rounds started from), round (the rounds of that chain before this one), issuedFor (the return URL the encrypted state
\* in hand was issued for), replay / script / expect (a repeated call and
\* the first call's replies and outcome).
Idle ==
  [op |-> "none", pc |-> "idle", status |-> "idle", request |-> NoRequest,
   loc |-> NoLocals, calls |-> <<>>, logs |-> <<>>,
   resp |-> ActionResponse, form |-> ActionForm, ret |-> UNDEF, url |-> NoAuthUrl,
   err |-> <<>>, thrown |-> <<>>,
   replies |-> <<>>, origin |-> NoOrigin, round |-> 0, issuedFor |-> UNDEF,
   replay |-> FALSE, script |-> <<>>,
   expect |-> [status |-> "idle", form |-> ActionForm, err |-> <<>>]]

Fresh(op, request) ==
  [Idle EXCEPT !.op = op, !.pc = "start", !.status = "pending", !.request = request]

Call(s, fn, arg) == [s EXCEPT !.calls = Append(@, [fn |-> fn, arg |-> arg])]

Log(s, line) == [s EXCEPT !.logs = Append(@, line)]

Await(s, pc) == [s EXCEPT !.pc = pc]

Reject(s, reason) == [s EXCEPT !.pc = "done", !.status = "rejected", !.err = reason]

Settled(s) == s.status \in {"resolved", "rejected"}

\* A slot takes a new invocation when nothing runs in it.
Free(s) == s.pc = "idle"

\* An invocation that will take no further step: its promise has settled, or
\* it is left pending with nothing scheduled that could settle it.
Over(s) == s.pc \in {"done", "hung"}

Resolve(s) == [s EXCEPT !.pc = "done", !.status = "resolved"]

\* The outcome of the awaited call reaches the invocation.
Deliver(s, reply) ==
  [s EXCEPT !.replies = Append(@, reply),
            !.script = IF s.replay THEN Tail(@) ELSE @]

\* A repeated call is served the replies the first call was served.
Admissible(s, reply) ==
  ~s.replay \/ (s.script # <<>> /\ reply = Head(s.script))

(***************************************************************************)
(* GoogleDriveAction                                                       *)
(***************************************************************************)
\* process.env.ACTION_HUB_BASE_URL
ACTION_HUB_BASE_URL == "https://hub.example"

\* The fields the class body initialises.
GoogleDriveAction ==
  [name |-> "google_drive", usesStreaming |-> TRUE, mimeType |-> UNDEF]

\* driveClientFromRequest: an OAuth2 client for the redirect URI, holding the
\* tokens as its credentials.
driveClientFromRequest(redirect, tokens) ==
  [built |-> TRUE, redirect |-> redirect, tokens |-> tokens]

\* generateQuery
generateQuery(search) ==
  <<"mimeType='application/vnd.google-apps.folder' and trashed=false">>
  \o (IF search # "" THEN <<" and name contains '", search, "'">> ELSE <<>>)

\* The options of drive.files.list in form.
listOptions(request) ==
  LET base == [fields |-> "files(id,name,parents),nextPageToken",
               orderBy |-> "recency desc", pageSize |-> 1000,
               q |-> generateQuery(request.formParams.search), spaces |-> "drive",
               driveId |-> UNDEF, includeItemsFromAllDrives |-> FALSE,
               supportsAllDrives |-> FALSE, corpora |-> UNDEF, pageToken |-> UNDEF]
  IN IF request.formParams.drive # UNDEF /\ request.formParams.drive # "mydrive"
     THEN [base EXCEPT !.driveId = request.formParams.drive,
                       !.includeItemsFromAllDrives = TRUE,
                       !.supportsAllDrives = TRUE, !.corpora = "drive"]
     ELSE [base EXCEPT !.corpora = "user"]

\* loginForm, up to the await of actionCrypto.encrypt.
loginForm(s) ==
  LET jsonString == JSONstringify(<< <<"stateurl", s.request.params.state_url>> >>)
      s1 == [s EXCEPT !.loc.fields = <<>>, !.loc.plaintext = jsonString]
  IN Await(Call(s1, "encrypt", [plaintext |-> jsonString]), "encrypt")

\* loginForm, from the outcome of actionCrypto.encrypt to its return.
loginFormEncrypted(s, reply) ==
  IF ~reply.ok
  THEN Reject(Log(s, "Encryption not correctly configured"), reply.err.message)
  ELSE LET ciphertextBlob == encrypt(s.loc.plaintext)
           login == [Field("login", "oauth_link_google") EXCEPT
                       !.oauth_url = [base |-> ACTION_HUB_BASE_URL,
                                      action |-> registry.google_drive.name,
                                      state |-> ciphertextBlob]]
       IN Resolve([s EXCEPT !.form = [fields |-> <<login>>, state |-> TUndef,
                                      hasState |-> TRUE]])

\* formCatch, were the catch block to throw the error on.
formCatchRethrow(s) == Reject(Log(s, "Error fetching form"), <<"Error fetching form">>)

\* The catch block of form, and the loginForm call after it.
formCatch(s) == loginForm(Log(s, "Error fetching form"))

RECURSIVE folderOptions(_)
\* Files with an id and a name, as select options.
folderOptions(files) ==
  IF files = <<>> THEN <<>>
  ELSE LET folder == files[1]
       IN (IF folder.id # UNDEF /\ folder.name # UNDEF
           THEN <<[name |-> folder.id, label |-> folder.name]>> ELSE <<>>)
          \o folderOptions(Tail(files))

\* formReturn, were the state to keep the tokens and drop the redirect.
formReturnTokensOnly(s, fields) ==
  LET fetch == [Field("fetch", "select") EXCEPT
                  !.required = TRUE, !.interactive = TRUE,
                  !.options = <<[name |-> "reset", label |-> "Reset"],
                                [name |-> "fetch", label |-> "Fetch Folders"]>>]
      search == [Field("search", "string") EXCEPT !.required = TRUE]
      data == JSONstringify(<< <<"tokens", s.loc.tokens>> >>)
  IN Resolve([s EXCEPT !.form = [fields |-> fields \o <<fetch, search>>,
                                 state |-> data, hasState |-> TRUE]])

\* formReturn, were the fetch field left out once the caller has used it.
formReturnFetchOnce(s, fields) ==
  LET fetch == [Field("fetch", "select") EXCEPT
                  !.required = TRUE, !.interactive = TRUE,
                  !.options = <<[name |-> "reset", label |-> "Reset"],
                                [name |-> "fetch", label |-> "Fetch Folders"]>>]
      search == [Field("search", "string") EXCEPT !.required = TRUE]
      data == JSONstringify(<< <<"tokens", s.loc.tokens>>, <<"redirect", s.loc.redirect>> >>)
      tail == IF s.request.formParams.fetch = UNDEF THEN <<fetch, search>> ELSE <<search>>
  IN Resolve([s EXCEPT !.form = [fields |-> fields \o tail,
                                 state |-> data, hasState |-> TRUE]])

\* form: the fetch and search fields, the state, and the return.
formReturn(s, fields) ==
  LET fetch == [Field("fetch", "select") EXCEPT
                  !.required = TRUE, !.interactive = TRUE,
                  !.options = <<[name |-> "reset", label |-> "Reset"],
                                [name |-> "fetch", label |-> "Fetch Folders"]>>]
      search == [Field("search", "string") EXCEPT !.required = TRUE]
      data == JSONstringify(<< <<"tokens", s.loc.tokens>>, <<"redirect", s.loc.redirect>> >>)
  IN Resolve([s EXCEPT !.form = [fields |-> fields \o <<fetch, search>>,
                                 state |-> data, hasState |-> TRUE]])

\* form: the folder and filename fields built from the listed files.
formFolders(s, paginatedFiles) ==
  LET folders == <<[name |-> "root", label |-> "Drive Root"]>> \o folderOptions(paginatedFiles)
      folder == [Field("folder", "select") EXCEPT
                   !.options = folders, !.default = folders[1].name, !.required = TRUE]
      filename == [Field("filename", "string") EXCEPT !.required = TRUE]
  IN formReturn(s, s.loc.fields \o <<folder, filename>>)

\* pagedFileList: merge the page; ask for the next page while one is named.
pagedFileList(s, accumulatedFiles, response) ==
  LET mergedFiles == accumulatedFiles \o response.files
  IN IF Truthy(response.nextPageToken)
     THEN LET pageOptions == [s.loc.options EXCEPT !.pageToken = response.nextPageToken]
              s1 == [s EXCEPT !.loc.files = mergedFiles, !.loc.page = @ + 1]
          IN Await(Call(s1, "files.list", [auth |-> s.loc.client, options |-> pageOptions]),
                   "files.list")
     ELSE formFolders(s, mergedFiles)

\* firstPageCatch, were the two status tests joined by "and".
firstPageCatchBothStatuses(reason) ==
  IF reason.status # 401 /\ reason.status # 403
  THEN [defined |-> TRUE, log |-> "No folders found",
        response |-> [Reply EXCEPT !.files = <<>>]]
  ELSE [defined |-> FALSE, log |-> "cannot fetch folders", response |-> Reply]

\* The handler given to catch on the first drive.files.list of form: what
\* the awaited expression yields for a rejection with this reason.
firstPageCatch(reason) ==
  IF reason.status # 401 \/ reason.status # 403
  THEN [defined |-> TRUE, log |-> "No folders found",
        response |-> [Reply EXCEPT !.files = <<>>]]
  ELSE [defined |-> FALSE, log |-> "cannot fetch folders", response |-> Reply]

\* form, from the outcome of a drive.files.list to the next await or the return.
formFilesListed(s, reply) ==
  IF s.loc.page = 1
  THEN IF reply.ok THEN pagedFileList(s, <<>>, reply)
       ELSE LET caught == firstPageCatch(reply.err)
            IN IF caught.defined
               THEN pagedFileList(Log(s, caught.log), <<>>, caught.response)
               ELSE formCatch(Log(s, caught.log))
  ELSE IF reply.ok THEN pagedFileList(s, s.loc.files, reply)
       ELSE formCatch(s)

RECURSIVE driveOptions(_)
driveOptions(drives) ==
  IF drives = <<>> THEN <<>>
  ELSE <<[name |-> drives[1].id, label |-> drives[1].name]>> \o driveOptions(Tail(drives))

\* getDrives, from the outcome of drive.drives.list.
getDrives(reply) ==
  <<[name |-> "mydrive", label |-> "My Drive"]>>
  \o (IF reply.hasDrives THEN driveOptions(reply.drives) ELSE <<>>)

\* formDrivesListed, were an empty search taken for no search at all.
formDrivesListedSearchTruthy(s, reply) ==
  IF ~reply.ok THEN formCatch(s)
  ELSE LET driveSelections == getDrives(reply)
           drive == [Field("drive", "select") EXCEPT
                       !.options = driveSelections, !.default = driveSelections[1].name,
                       !.interactive = TRUE, !.required = TRUE]
           s1 == [s EXCEPT !.loc.fields = <<drive>>]
       IN IF Truthy(s.request.formParams.search)
          THEN LET options == listOptions(s.request)
                   s2 == [s1 EXCEPT !.loc.options = options, !.loc.page = 1,
                                    !.loc.files = <<>>]
               IN Await(Call(s2, "files.list", [auth |-> s.loc.client, options |-> options]),
                        "files.list")
          ELSE formReturn(s1, s1.loc.fields)

\* form, from the outcome of getDrives to the next await or the return.
formDrivesListed(s, reply) ==
  IF ~reply.ok THEN formCatch(s)
  ELSE LET driveSelections == getDrives(reply)
           drive == [Field("drive", "select") EXCEPT
                       !.options = driveSelections, !.default = driveSelections[1].name,
                       !.interactive = TRUE, !.required = TRUE]
           s1 == [s EXCEPT !.loc.fields = <<drive>>]
       IN IF s.request.formParams.search # UNDEF
          THEN LET options == listOptions(s.request)
                   s2 == [s1 EXCEPT !.loc.options = options, !.loc.page = 1,
                                    !.loc.files = <<>>]
               IN Await(Call(s2, "files.list", [auth |-> s.loc.client, options |-> options]),
                        "files.list")
          ELSE formReturn(s1, s1.loc.fields)

\* form, were it to ask for the tokens alone before building a client.
formTokensOnly(s) ==
  LET request == s.request
      parsed == JSONparse(request.params.state_json)
  IN IF ~TruthyText(request.params.state_json) THEN loginForm(s)
     ELSE IF ~parsed.ok \/ parsed.isNull THEN formCatch(s)
     ELSE IF Truthy(parsed.obj.tokens)
          THEN LET drive == driveClientFromRequest(parsed.obj.redirect, parsed.obj.tokens)
                   s1 == [s EXCEPT !.loc.tokens = parsed.obj.tokens,
                                   !.loc.redirect = parsed.obj.redirect,
                                   !.loc.client = drive]
               IN Await(Call(s1, "drives.list", [auth |-> drive, options |-> [pageSize |-> 50]]),
                        "drives.list")
          ELSE loginForm(s)

\* form, from its entry to the first await.
form(s) ==
  LET request == s.request
      parsed == JSONparse(request.params.state_json)
  IN IF ~TruthyText(request.params.state_json) THEN loginForm(s)
     ELSE IF ~parsed.ok \/ parsed.isNull THEN formCatch(s)
     ELSE IF Truthy(parsed.obj.tokens) /\ Truthy(parsed.obj.redirect)
          THEN LET drive == driveClientFromRequest(parsed.obj.redirect, parsed.obj.tokens)
                   s1 == [s EXCEPT !.loc.tokens = parsed.obj.tokens,
                                   !.loc.redirect = parsed.obj.redirect,
                                   !.loc.client = drive]
               IN Await(Call(s1, "drives.list", [auth |-> drive, options |-> [pageSize |-> 50]]),
                        "drives.list")
          ELSE loginForm(s)

\* getMimeType
getMimeType(request) ==
  IF Truthy(registry.google_drive.mimeType) THEN registry.google_drive.mimeType
  ELSE IF request.attachment.present /\ Truthy(request.attachment.mime)
       THEN request.attachment.mime
  ELSE CASE request.formParams.format = "csv"         -> "text/csv"
         [] request.formParams.format = "xlsx"        ->
              "application/vnd.openxmlformats-officedocument.spreadsheetml.sheet"
         [] request.formParams.format = "inline_json" -> "application/json"
         [] request.formParams.format = "json"        -> "application/json"
         [] request.formParams.format = "json_label"  -> "application/json"
         [] request.formParams.format = "json_detail" -> "application/json"
         [] request.formParams.format = "html"        -> "text/html"
         [] request.formParams.format = "txt"         -> "text/plain"
         [] OTHER                                     -> UNDEF

\* sendData, up to the await of drive.files.create inside request.stream.
sendData(s, filename) ==
  LET request == s.request
      shared == request.formParams.drive # UNDEF /\ request.formParams.drive # "mydrive"
      fileMetadata ==
        [name |-> filename, mimeType |-> getMimeType(request),
         parents |-> IF Truthy(request.formParams.folder)
                     THEN <<request.formParams.folder>> ELSE <<>>,
         driveId |-> IF shared THEN request.formParams.drive ELSE UNDEF]
      driveParams ==
        [requestBody |-> fileMetadata,
         media |-> [body |-> request.attachment.dataBuffer],
         supportsAllDrives |-> shared]
  IN Await(Call(Log(s, "Creating new file in Drive"), "files.create",
                [auth |-> s.loc.client, options |-> driveParams]),
           "files.create")

\* The reset response of execute.
resetResponse == [ActionResponse EXCEPT !.success = FALSE, !.state = "reset"]

\* execute: the response for a request from which no filename can be made.
filenameError(request) ==
  LET error == [http_code |-> HTTP_ERROR.bad_request.code,
                status_code |-> HTTP_ERROR.bad_request.status,
                message |-> <<HTTP_ERROR.bad_request.description,
                              "Error creating filename from request">>,
                location |-> "ActionContainer", documentation_url |-> "TODO"]
  IN [ActionResponse EXCEPT !.success = FALSE, !.error = error,
                            !.message = error.message,
                            !.webhookId = request.webhookId]

\* execute, were it to send the data without looking at the filename.
executeAnyFilename(s) ==
  LET request == s.request
      parsed == JSONparse(request.params.state_json)
  IN IF ~TruthyText(request.params.state_json)
     THEN Resolve([s EXCEPT !.resp = resetResponse])
     ELSE IF ~parsed.ok THEN Reject(s, <<"SyntaxError">>)
     ELSE IF parsed.isNull THEN Reject(s, <<"TypeError">>)
     ELSE IF Truthy(parsed.obj.tokens) /\ Truthy(parsed.obj.redirect)
          THEN LET drive == driveClientFromRequest(parsed.obj.redirect, parsed.obj.tokens)
                   filename == OrElse(request.formParams.filename, suggestedFilename(request))
                   s1 == [s EXCEPT !.loc.tokens = parsed.obj.tokens,
                                   !.loc.redirect = parsed.obj.redirect,
                                   !.loc.client = drive, !.loc.filename = filename]
               IN sendData(s1, filename)
          ELSE Resolve([s EXCEPT !.resp = resetResponse])

\* execute, from its entry to the await of sendData or the return.
execute(s) ==
  LET request == s.request
      parsed == JSONparse(request.params.state_json)
  IN IF ~TruthyText(request.params.state_json)
     THEN Resolve([s EXCEPT !.resp = resetResponse])
     ELSE IF ~parsed.ok THEN Reject(s, <<"SyntaxError">>)
     ELSE IF parsed.isNull THEN Reject(s, <<"TypeError">>)
     ELSE IF Truthy(parsed.obj.tokens) /\ Truthy(parsed.obj.redirect)
          THEN LET drive == driveClientFromRequest(parsed.obj.redirect, parsed.obj.tokens)
                   filename == OrElse(request.formParams.filename, suggestedFilename(request))
                   s1 == [s EXCEPT !.loc.tokens = parsed.obj.tokens,
                                   !.loc.redirect = parsed.obj.redirect,
                                   !.loc.client = drive, !.loc.filename = filename]
               IN IF ~Truthy(filename)
                  THEN Resolve(Log([s1 EXCEPT !.resp = filenameError(request)],
                                   "Error creating filename from request"))
                  ELSE sendData(s1, filename)
          ELSE Resolve([s EXCEPT !.resp = resetResponse])

\* execute, from the outcome of sendData to the return.
executeSent(s, reply) ==
  IF reply.ok THEN Resolve([s EXCEPT !.resp = [ActionResponse EXCEPT !.success = TRUE]])
  ELSE LET e == reply.err
           plain == errorWith(HTTP_ERROR.internal, <<"Error while sending data ">> \o e.message)
           error == IF e.code # 0 /\ Truthy(e.reason)
                    THEN [plain EXCEPT !.http_code = e.code,
                                       !.message = <<HTTP_ERROR.internal.description, e.reason>>]
                    ELSE plain
       IN Resolve(Log([s EXCEPT !.resp = [ActionResponse EXCEPT
                                             !.success = FALSE, !.message = e.message,
                                             !.webhookId = s.request.webhookId,
                                             !.error = error]],
                      "Error while sending data"))

\* oauthUrl: the provider's consent URL, carrying the encrypted state.
oauthUrl(redirectUri, encryptedState) ==
  [redirect_uri |-> redirectUri, access_type |-> "offline",
   scope |-> <<"https://www.googleapis.com/auth/drive">>,
   prompt |-> "consent", state |-> encryptedState]

\* oauthFetchInfo, were a failed decryption logged and the flow continued.
oauthFetchInfoFailOpen(s) ==
  LET urlParams == s.request.urlParams
      decrypted == decrypt(urlParams.state)
      s1 == Call(s, "decrypt", [state |-> urlParams.state])
      s2 == IF decrypted.ok THEN s1 ELSE Log(s1, "Encryption not correctly configured")
  IN Await(Call([s2 EXCEPT !.loc.plaintext = urlParams.state.plain], "getToken",
                [redirect |-> s.request.redirectUri, code |-> urlParams.code]),
           "getToken")

\* oauthFetchInfo, from its entry to the await of the token exchange.
oauthFetchInfo(s) ==
  LET urlParams == s.request.urlParams
      decrypted == decrypt(urlParams.state)
      s1 == Call(s, "decrypt", [state |-> urlParams.state])
  IN IF ~decrypted.ok
     THEN Reject(Log(s1, "Encryption not correctly configured"), <<decrypted.err>>)
     ELSE Await(Call([s1 EXCEPT !.loc.plaintext = decrypted.plaintext], "getToken",
                     [redirect |-> s.request.redirectUri, code |-> urlParams.code]),
                "getToken")

\* oauthFetchInfoExchanged, were the tokens posted to the redirect URI.
oauthFetchInfoExchangedToRedirect(s, reply) ==
  IF ~reply.ok THEN Reject(s, reply.err.message)
  ELSE LET tokens == reply.tokens
           payload == JSONparse(s.loc.plaintext)
       IN IF ~payload.ok THEN Reject(s, <<"SyntaxError">>)
          ELSE IF payload.isNull THEN Reject(s, <<"TypeError">>)
          ELSE Await(Call(s, "https.post",
                          [url |-> s.request.redirectUri,
                           body |-> JSONstringify(<< <<"tokens", tokens>>,
                                                     <<"redirect", s.request.redirectUri>> >>)]),
                     "https.post")

\* oauthFetchInfo, from the outcome of the token exchange to the await of the POST.
oauthFetchInfoExchanged(s, reply) ==
  IF ~reply.ok THEN Reject(s, reply.err.message)
  ELSE LET tokens == reply.tokens
           payload == JSONparse(s.loc.plaintext)
       IN IF ~payload.ok THEN Reject(s, <<"SyntaxError">>)
          ELSE IF payload.isNull THEN Reject(s, <<"TypeError">>)
          ELSE Await(Call(s, "https.post",
                          [url |-> payload.obj.stateurl,
                           body |-> JSONstringify(<< <<"tokens", tokens>>,
                                                     <<"redirect", s.request.redirectUri>> >>)]),
                     "https.post")

\* oauthFetchInfoPosted, were a failed POST thrown on to the caller.
oauthFetchInfoPostedOrThrow(s, reply) ==
  IF reply.ok THEN Resolve(s) ELSE Reject(Log(s, "post failed"), reply.err.message)

\* oauthFetchInfo, from the outcome of the POST to the return.
oauthFetchInfoPosted(s, reply) ==
  Resolve(IF reply.ok THEN s ELSE Log(s, "post failed"))

\* oauthCheck, from its entry to the await of the probe or the return.
oauthCheck(s) ==
  LET request == s.request
      parsed == JSONparse(request.params.state_json)
  IN IF ~TruthyText(request.params.state_json) THEN Resolve([s EXCEPT !.ret = "false"])
     ELSE IF ~parsed.ok THEN Reject(s, <<"SyntaxError">>)
     ELSE IF parsed.isNull THEN Reject(s, <<"TypeError">>)
     ELSE IF Truthy(parsed.obj.tokens) /\ Truthy(parsed.obj.redirect)
          THEN LET drive == driveClientFromRequest(parsed.obj.redirect, parsed.obj.tokens)
                   s1 == [s EXCEPT !.loc.client = drive]
               IN Await(Call(s1, "files.list", [auth |-> drive, options |-> [pageSize |-> 10]]),
                        "probe")
          ELSE Resolve([s EXCEPT !.ret = "false"])

\* oauthCheck, from the outcome of the probe to the return.
oauthCheckProbed(s, reply) ==
  IF reply.ok THEN Resolve([s EXCEPT !.ret = "true"])
  ELSE Reject(s, reply.err.message)

(***************************************************************************)
(* SFTPAction                                                              *)
(***************************************************************************)
SFTPAction == [name |-> "sftp"]

\* The port an SFTP server listens on when the address names none.
DefaultPort == 22

\* An address as new URL(address) reads it: ok is FALSE where the
\* constructor throws.  A path is the sequence of its segments and slashes.
NoURL == [ok |-> FALSE, hostname |-> "", port |-> "", pathname |-> <<>>]

URL(address) ==
  CASE address = "sftp://host/path/"    ->
         [ok |-> TRUE, hostname |-> "host", port |-> "", pathname |-> <<"/", "path", "/">>]
    [] address = "sftp://host:2222/dir" ->
         [ok |-> TRUE, hostname |-> "host", port |-> "2222", pathname |-> <<"/", "dir">>]
    [] address = "sftp://host"          ->
         [ok |-> TRUE, hostname |-> "host", port |-> "", pathname |-> <<>>]
    [] address = "sftp:///path"         ->
         [ok |-> TRUE, hostname |-> "", port |-> "", pathname |-> <<"/", "path">>]
    [] OTHER                            -> NoURL

\* +(port)
ToNumber(port) == IF port = "2222" THEN 2222 ELSE 0

\* A file name as the sequence of its segments and slashes.
NameTokens(name) ==
  CASE name = "../up.csv"  -> <<"..", "/", "up.csv">>
    [] name = "sub/out.csv" -> <<"sub", "/", "out.csv">>
    [] OTHER                -> <<name>>

RECURSIVE Segments(_, _)
\* The segments of a path, "." and empty ones dropped and ".." resolved.
Segments(tokens, stack) ==
  IF tokens = <<>> THEN stack
  ELSE LET t == tokens[1]
       IN CASE t = "/" \/ t = "." \/ t = "" -> Segments(Tail(tokens), stack)
            [] t = ".."  -> Segments(Tail(tokens),
                                     IF stack = <<>> THEN <<>>
                                     ELSE SubSeq(stack, 1, Len(stack) - 1))
            [] OTHER     -> Segments(Tail(tokens), Append(stack, t))

RECURSIVE Slashed(_)
Slashed(segs) ==
  IF Len(segs) <= 1 THEN segs ELSE <<segs[1], "/">> \o Slashed(Tail(segs))

\* Path.join of an absolute path and a name: joined with a slash, normalised.
PathJoin(pathname, name) ==
  <<"/">> \o Slashed(Segments(pathname \o <<"/">> \o name, <<>>))

\* An async function inside the promise executor threw: the executor's own
\* promise rejects, unobserved, and the promise execute returned stays pending.
Hang(s, thrown) == [s EXCEPT !.pc = "hung", !.thrown = thrown]

\* sftpClientFromRequest, up to the await of client.connect.
sftpClientFromRequest(s) ==
  LET request == s.request
      parsedUrl == URL(request.formParams.address)
  IN IF ~parsedUrl.ok THEN Hang(s, <<"TypeError: Invalid URL">>)
     ELSE IF ~Truthy(parsedUrl.hostname) THEN Hang(s, <<"Needs a valid SFTP address. [3]">>)
     ELSE Await(Call(s, "connect",
                     [host |-> parsedUrl.hostname,
                      username |-> request.formParams.username,
                      password |-> request.formParams.password,
                      port |-> IF Truthy(parsedUrl.port) THEN ToNumber(parsedUrl.port)
                               ELSE DefaultPort]),
                "connect")

\* SFTP execute, were the address examined before the attachment.
sftpExecuteAddressFirst(s) ==
  LET request == s.request
  IN IF ~Truthy(request.formParams.address)
     THEN Reject(s, <<"Needs a valid SFTP address. [1]">>)
     ELSE IF ~request.attachment.present \/ ~Truthy(request.attachment.dataBuffer)
          THEN Reject(s, <<"Couldn't get data from attachment.">>)
          ELSE sftpClientFromRequest(s)

\* SFTP execute, from its entry to the await of sftpClientFromRequest.
sftpExecute(s) ==
  LET request == s.request
  IN IF ~request.attachment.present \/ ~Truthy(request.attachment.dataBuffer)
     THEN Reject(s, <<"Couldn't get data from attachment.">>)
     ELSE IF ~Truthy(request.formParams.address)
          THEN Reject(s, <<"Needs a valid SFTP address. [1]">>)
          ELSE sftpClientFromRequest(s)

\* sftpConnected, were the file always given the suggested name.
sftpConnectedSuggestedName(s, reply) ==
  IF ~reply.ok THEN Hang(s, reply.err.message)
  ELSE LET request == s.request
           parsedUrl == URL(request.formParams.address)
       IN IF parsedUrl.pathname = <<>>
          THEN Hang(s, <<"Needs a valid SFTP address. [2]">>)
          ELSE LET data == request.attachment.dataBuffer
                   fileName == suggestedFilename(request)
                   remotePath == PathJoin(parsedUrl.pathname, NameTokens(fileName))
               IN Await(Call(s, "put", [data |-> data, remotePath |-> remotePath]), "put")

\* SFTP execute, from the outcome of client.connect to the call of client.put.
sftpConnected(s, reply) ==
  IF ~reply.ok THEN Hang(s, reply.err.message)
  ELSE LET request == s.request
           parsedUrl == URL(request.formParams.address)
       IN IF parsedUrl.pathname = <<>>
          THEN Hang(s, <<"Needs a valid SFTP address. [2]">>)
          ELSE LET data == request.attachment.dataBuffer
                   fileName == OrElse(request.formParams.filename, suggestedFilename(request))
                   remotePath == PathJoin(parsedUrl.pathname, NameTokens(fileName))
               IN Await(Call(s, "put", [data |-> data, remotePath |-> remotePath]), "put")

\* SFTP execute, from the outcome of client.put to the settling of the promise.
sftpPutDone(s, reply) ==
  IF reply.ok THEN Resolve([s EXCEPT !.resp = ActionResponse])
  ELSE Resolve([s EXCEPT !.resp = [ActionResponse EXCEPT !.success = FALSE,
                                                          !.message = reply.err.message]])

(***************************************************************************)
(* Requests the caller may send                                            *)
(***************************************************************************)
\* The credentials a caller may hold: tokens, and the redirect URI they were
\* issued for.
Credentials ==
  { <<"T1", "https://hub.example/actions/google_drive/oauth_redirect">>,
    <<"T2", "https://hub2.example/actions/google_drive/oauth_redirect">> }

RedirectUris == {"https://hub.example/actions/google_drive/oauth_redirect",
                 "https://hub2.example/actions/google_drive/oauth_redirect"}
ReturnUrls == {"https://looker.example/state/u1", "https://looker.example/state/u2"}

\* The ways a state_json can spell an object that holds tokens T and redirect R.
AuthorizedTexts(T, R) ==
  { TObj(<< <<"tokens", T>>, <<"redirect", R>> >>),
    TObj(<< <<"redirect", R>>, <<"extra", "x">>, <<"tokens", T>> >>),
    TObj(<< <<"tokens", "stale">>, <<"redirect", R>>, <<"tokens", T>> >>) }

AuthorizedStates == UNION { AuthorizedTexts(c[1], c[2]) : c \in Credentials }

\* State that holds no usable credentials, or is no JSON object at all.
UnauthorizedTexts ==
  { TUndef, TEmpty, TObj(<<>>),
    TObj(<< <<"tokens", "T1">> >>),
    TObj(<< <<"redirect", "https://hub.example/actions/google_drive/oauth_redirect">> >>),
    TObj(<< <<"tokens", "">>,
            <<"redirect", "https://hub.example/actions/google_drive/oauth_redirect">> >>) }

MalformedTexts == {TBad, TNull}

Attachments ==
  { NoAttachment,
    [present |-> TRUE, dataBuffer |-> UNDEF, mime |-> UNDEF],
    [present |-> TRUE, dataBuffer |-> "bytes-1", mime |-> UNDEF],
    [present |-> TRUE, dataBuffer |-> "bytes-2", mime |-> "text/csv"] }

\* A request with the given state_json and the other inputs a Drive method reads.
DriveRequest(text, url, fp, attachment) ==
  [NoRequest EXCEPT !.params = [state_json |-> text, state_url |-> url],
                    !.formParams = fp, !.attachment = attachment,
                    !.webhookId = "webhook-1"]

FormSelections ==
  { [NoFormParams EXCEPT !.search = q, !.drive = d, !.fetch = f] :
      q \in {UNDEF, "", "rep"}, d \in {UNDEF, "mydrive", "d1"},
      f \in {UNDEF, "fetch"} }

ExecuteSelections ==
  { [NoFormParams EXCEPT !.filename = f, !.drive = d, !.folder = o, !.format = m] :
      f \in {UNDEF, "", "out.csv"}, d \in {UNDEF, "d1"},
      o \in {UNDEF, "f1"}, m \in {UNDEF, "csv"} }

\* The encrypted states a redirect can carry: issued by the hub, tampered
\* with, encrypted under another key, or missing.
Blobs ==
  LET issued == { encrypt(JSONstringify(<< <<"stateurl", u>> >>)) : u \in ReturnUrls \cup {UNDEF} }
  IN issued \cup { Tamper(b) : b \in issued }
            \cup { [b EXCEPT !.key = ForeignKey] : b \in issued }
            \cup {NoBlob}

SftpSelections ==
  { [NoFormParams EXCEPT !.address = a, !.filename = f,
                         !.username = "user", !.password = "secret"] :
      a \in {UNDEF, "", "not a url", "sftp://host/path/", "sftp://host:2222/dir",
             "sftp://host", "sftp:///path"},
      f \in {UNDEF, "", "out.csv", "../up.csv"} }

(***************************************************************************)
(* Actions                                                                 *)
(***************************************************************************)
Init ==
  /\ inv = [i \in Slots |-> Idle]
  /\ registry = [google_drive |-> GoogleDriveAction, sftp |-> SFTPAction]

\* Put, were execute to keep the MIME type it worked out in the instance.
PutShared(i, s) ==
  /\ inv' = [inv EXCEPT ![i] = s]
  /\ registry' = IF s.op = "google_drive.execute"
                 THEN [registry EXCEPT !.google_drive.mimeType = getMimeType(s.request)]
                 ELSE registry

Put(i, s) == inv' = [inv EXCEPT ![i] = s] /\ UNCHANGED registry

\* POST /actions/google_drive/form
GoogleDriveForm(i) ==
  /\ Free(inv[i])
  /\ \E url \in ReturnUrls \cup {UNDEF}, fp \in FormSelections :
       \/ \E c \in Credentials : \E text \in AuthorizedTexts(c[1], c[2]) :
            Put(i, form([Fresh("google_drive.form", DriveRequest(text, url, fp, NoAttachment))
                           EXCEPT !.origin = [tokens |-> c[1], redirect |-> c[2]]]))
       \/ \E text \in UnauthorizedTexts \cup MalformedTexts :
            Put(i, form(Fresh("google_drive.form", DriveRequest(text, url, fp, NoAttachment))))

\* The caller renders an authorized form, and asks for the form again with
\* the state it was handed and its new selections.
GoogleDriveFormEcho(i) ==
  /\ inv[i].op = "google_drive.form" /\ inv[i].status = "resolved"
  /\ TruthyText(inv[i].form.state)
  /\ ~inv[i].replay
  /\ inv[i].round < MaxRounds
  /\ \E fp \in FormSelections :
       Put(i, form([Fresh("google_drive.form",
                          [inv[i].request EXCEPT !.params.state_json = inv[i].form.state,
                                                 !.formParams = fp])
                      EXCEPT !.origin = inv[i].origin, !.round = inv[i].round + 1]))

\* The caller sends the same form request again; the provider answers as before.
GoogleDriveFormAgain(i) ==
  /\ inv[i].op = "google_drive.form" /\ Settled(inv[i])
  /\ ~inv[i].replay
  /\ Put(i, form([Fresh("google_drive.form", inv[i].request)
                    EXCEPT !.origin = inv[i].origin, !.round = inv[i].round,
                           !.replay = TRUE,
                           !.script = inv[i].replies,
                           !.expect = [status |-> inv[i].status, form |-> inv[i].form,
                                       err |-> inv[i].err]]))

DrivesListReply(i) ==
  /\ inv[i].op = "google_drive.form" /\ inv[i].pc = "drives.list"
  /\ \E reply \in DrivesReplies :
       /\ Admissible(inv[i], reply)
       /\ Put(i, formDrivesListed(Deliver(inv[i], reply), reply))

FilesListReply(i) ==
  /\ inv[i].op = "google_drive.form" /\ inv[i].pc = "files.list"
  /\ \E reply \in FilesReplies(inv[i].loc.page) :
       /\ Admissible(inv[i], reply)
       /\ Put(i, formFilesListed(Deliver(inv[i], reply), reply))

EncryptReply(i) ==
  /\ inv[i].op = "google_drive.form" /\ inv[i].pc = "encrypt"
  /\ \E reply \in EncryptReplies :
       /\ Admissible(inv[i], reply)
       /\ Put(i, loginFormEncrypted(Deliver(inv[i], reply), reply))

\* POST /actions/google_drive/execute
GoogleDriveExecute(i) ==
  /\ Free(inv[i])
  /\ \E fp \in ExecuteSelections, attachment \in Attachments :
       \E text \in UnauthorizedTexts \cup MalformedTexts
                   \cup AuthorizedStates :
          Put(i, execute(Fresh("google_drive.execute",
                               DriveRequest(text, UNDEF, fp, attachment))))

FilesCreateReply(i) ==
  /\ inv[i].op = "google_drive.execute" /\ inv[i].pc = "files.create"
  /\ \E reply \in CreateReplies :
       Put(i, executeSent(Deliver(inv[i], reply), reply))

\* GET /actions/google_drive/oauth?state=...: the link of a login form, or any
\* other state, is turned into the provider's consent URL.
GoogleDriveOauthUrl(i) ==
  \E R \in RedirectUris :
       \/ /\ inv[i].op = "google_drive.form" /\ inv[i].status = "resolved"
          /\ inv[i].form.fields[1].name = "login"
          /\ LET link == inv[i].form.fields[1].oauth_url
             IN Put(i, Resolve([Fresh("google_drive.oauthUrl",
                                      [NoRequest EXCEPT !.redirectUri = R,
                                                        !.urlParams.state = link.state])
                                  EXCEPT !.url = oauthUrl(R, link.state),
                                         !.issuedFor = inv[i].request.params.state_url]))
       \/ /\ Free(inv[i])
          /\ \E blob \in Blobs :
            Put(i, Resolve([Fresh("google_drive.oauthUrl",
                                  [NoRequest EXCEPT !.redirectUri = R,
                                                    !.urlParams.state = blob])
                              EXCEPT !.url = oauthUrl(R, blob)]))

\* GET /actions/google_drive/oauth_redirect?code=...&state=...: the provider
\* sends the user back with the state of the consent URL, or somebody calls
\* the endpoint with a state of their own.
GoogleDriveOauthFetchInfo(i) ==
  \E R \in RedirectUris :
       \/ /\ inv[i].op = "google_drive.oauthUrl" /\ inv[i].status = "resolved"
          /\ Put(i, oauthFetchInfo([Fresh("google_drive.oauthFetchInfo",
                                          [NoRequest EXCEPT
                                             !.redirectUri = R,
                                             !.urlParams = [state |-> inv[i].url.state,
                                                            code |-> "code-1"]])
                                      EXCEPT !.issuedFor = inv[i].issuedFor]))
       \/ /\ Free(inv[i])
          /\ \E blob \in Blobs :
            Put(i, oauthFetchInfo(Fresh("google_drive.oauthFetchInfo",
                                        [NoRequest EXCEPT
                                           !.redirectUri = R,
                                           !.urlParams = [state |-> blob, code |-> "code-1"]])))

TokenReply(i) ==
  /\ inv[i].op = "google_drive.oauthFetchInfo" /\ inv[i].pc = "getToken"
  /\ \E reply \in TokenReplies :
       Put(i, oauthFetchInfoExchanged(Deliver(inv[i], reply), reply))

PostReply(i) ==
  /\ inv[i].op = "google_drive.oauthFetchInfo" /\ inv[i].pc = "https.post"
  /\ \E reply \in PostReplies :
       Put(i, oauthFetchInfoPosted(Deliver(inv[i], reply), reply))

\* The hub probes whether the caller's state still authorizes.
GoogleDriveOauthCheck(i) ==
  /\ Free(inv[i])
  /\ \E text \in UnauthorizedTexts \cup MalformedTexts
                 \cup AuthorizedStates :
       Put(i, oauthCheck(Fresh("google_drive.oauthCheck",
                               DriveRequest(text, UNDEF, NoFormParams, NoAttachment))))

ProbeReply(i) ==
  /\ inv[i].op = "google_drive.oauthCheck" /\ inv[i].pc = "probe"
  /\ \E reply \in ProbeReplies :
       Put(i, oauthCheckProbed(Deliver(inv[i], reply), reply))

\* POST /actions/sftp/execute
SftpExecute(i) ==
  /\ Free(inv[i])
  /\ \E fp \in SftpSelections, attachment \in Attachments :
       Put(i, sftpExecute(Fresh("sftp.execute",
                                [NoRequest EXCEPT !.formParams = fp,
                                                  !.attachment = attachment,
                                                  !.webhookId = "webhook-1"])))

SftpConnectReply(i) ==
  /\ inv[i].op = "sftp.execute" /\ inv[i].pc = "connect"
  /\ \E reply \in SftpReplies :
       Put(i, sftpConnected(Deliver(inv[i], reply), reply))

SftpPutReply(i) ==
  /\ inv[i].op = "sftp.execute" /\ inv[i].pc = "put"
  /\ \E reply \in SftpReplies :
       Put(i, sftpPutDone(Deliver(inv[i], reply), reply))

\* The response has been delivered (or the caller has given up waiting) and
\* the request is discarded.
Release(i) ==
  /\ Over(inv[i])
  /\ Put(i, Idle)

Next ==
  \E i \in Slots :
    \/ Release(i)
    \/ GoogleDriveForm(i)
    \/ GoogleDriveFormEcho(i)
    \/ GoogleDriveFormAgain(i)
    \/ DrivesListReply(i)
    \/ FilesListReply(i)
    \/ EncryptReply(i)
    \/ GoogleDriveExecute(i)
    \/ FilesCreateReply(i)
    \/ GoogleDriveOauthUrl(i)
    \/ GoogleDriveOauthFetchInfo(i)
    \/ TokenReply(i)
    \/ PostReply(i)
    \/ GoogleDriveOauthCheck(i)
    \/ ProbeReply(i)
    \/ SftpExecute(i)
    \/ SftpConnectReply(i)
    \/ SftpPutReply(i)

Spec == Init /\ [][Next]_vars

(***************************************************************************)
(* Two requests served at once by the same registered actions              *)
(***************************************************************************)
PairSlots == {"r1", "r2"}

\* The state a caller holds after authorizing.
PairState ==
  TObj(<< <<"tokens", "T1">>,
          <<"redirect", "https://hub.example/actions/google_drive/oauth_redirect">> >>)

PairFormRequests ==
  { DriveRequest(text, "https://looker.example/state/u1",
                 [NoFormParams EXCEPT !.search = q], NoAttachment) :
      text \in {PairState, TUndef}, q \in {UNDEF, "rep"} }

PairExecuteRequests ==
  { DriveRequest(text, UNDEF,
                 [NoFormParams EXCEPT !.filename = "out.csv", !.format = m],
                 [present |-> TRUE, dataBuffer |-> "bytes-2", mime |-> mime]) :
      text \in {PairState, TUndef}, m \in {UNDEF, "csv"}, mime \in {UNDEF, "text/csv"} }

PairSftpRequests ==
  { [NoRequest EXCEPT
       !.formParams = [NoFormParams EXCEPT !.address = a, !.username = "user",
                                           !.password = "secret"],
       !.attachment = [present |-> TRUE, dataBuffer |-> "bytes-1", mime |-> UNDEF],
       !.webhookId = "webhook-1"] :
      a \in {UNDEF, "sftp://host/path/", "sftp://host"} }

PairRedirects ==
  LET issued == encrypt(JSONstringify(<< <<"stateurl", "https://looker.example/state/u1">> >>))
  IN { [NoRequest EXCEPT
          !.redirectUri = "https://hub.example/actions/google_drive/oauth_redirect",
          !.urlParams = [state |-> blob, code |-> "code-1"]] :
         blob \in {issued, Tamper(issued)} }

InitPair ==
  /\ inv = [i \in PairSlots |-> Idle]
  /\ registry = [google_drive |-> GoogleDriveAction, sftp |-> SFTPAction]

ConcurrentForm(i) ==
  /\ Free(inv[i])
  /\ \E request \in PairFormRequests :
       Put(i, form(Fresh("google_drive.form", request)))

ConcurrentExecute(i) ==
  /\ Free(inv[i])
  /\ \E request \in PairExecuteRequests :
       Put(i, execute(Fresh("google_drive.execute", request)))

ConcurrentOauthCheck(i) ==
  /\ Free(inv[i])
  /\ Put(i, oauthCheck(Fresh("google_drive.oauthCheck",
                             DriveRequest(PairState, UNDEF, NoFormParams, NoAttachment))))

ConcurrentOauthFetchInfo(i) ==
  /\ Free(inv[i])
  /\ \E request \in PairRedirects :
       Put(i, oauthFetchInfo(Fresh("google_drive.oauthFetchInfo", request)))

ConcurrentSftpExecute(i) ==
  /\ Free(inv[i])
  /\ \E request \in PairSftpRequests :
       Put(i, sftpExecute(Fresh("sftp.execute", request)))

NextPair ==
  \E i \in PairSlots :
    \/ Release(i)
    \/ ConcurrentForm(i)
    \/ DrivesListReply(i)
    \/ FilesListReply(i)
    \/ EncryptReply(i)
    \/ ConcurrentExecute(i)
    \/ FilesCreateReply(i)
    \/ ConcurrentOauthFetchInfo(i)
    \/ TokenReply(i)
    \/ PostReply(i)
    \/ ConcurrentOauthCheck(i)
    \/ ProbeReply(i)
    \/ ConcurrentSftpExecute(i)
    \/ SftpConnectReply(i)
    \/ SftpPutReply(i)

SpecPair == InitPair /\ [][NextPair]_vars

\* The method a request is routed to, up to its first await or its return.
EntryOf(op, request) ==
  LET s == Fresh(op, request)
  IN CASE op = "google_drive.form"           -> form(s)
       [] op = "google_drive.execute"        -> execute(s)
       [] op = "google_drive.oauthFetchInfo" -> oauthFetchInfo(s)
       [] op = "google_drive.oauthCheck"     -> oauthCheck(s)
       [] op = "sftp.execute"                -> sftpExecute(s)
       [] OTHER                              -> s

\* The invocation resumed with the outcome of the call it awaits.
StepOf(s, reply) ==
  LET d == Deliver(s, reply)
  IN CASE s.pc = "drives.list"  -> formDrivesListed(d, reply)
       [] s.pc = "files.list"   -> formFilesListed(d, reply)
       [] s.pc = "encrypt"      -> loginFormEncrypted(d, reply)
       [] s.pc = "files.create" -> executeSent(d, reply)
       [] s.pc = "getToken"     -> oauthFetchInfoExchanged(d, reply)
       [] s.pc = "https.post"   -> oauthFetchInfoPosted(d, reply)
       [] s.pc = "probe"        -> oauthCheckProbed(d, reply)
       [] s.pc = "connect"      -> sftpConnected(d, reply)
       [] s.pc = "put"          -> sftpPutDone(d, reply)
       [] OTHER                 -> s

RECURSIVE RunAlone(_, _)
\* A request served with nothing else in flight, the outside world answering
\* its calls with the given replies in order.
RunAlone(s, replies) ==
  IF replies = <<>> THEN s
  ELSE RunAlone(StepOf(s, Head(replies)), Tail(replies))

(***************************************************************************)
(* Properties                                                              *)
(***************************************************************************)
\* The names of the calls an invocation has made, in order.
Fns(s) == [k \in 1..Len(s.calls) |-> s.calls[k].fn]

Made(s, fn) == \E k \in 1..Len(s.calls) : s.calls[k].fn = fn

Count(s, fn) == Cardinality({ k \in 1..Len(s.calls) : s.calls[k].fn = fn })

AllOk(replies) == \A k \in 1..Len(replies) : replies[k].ok

SomeFailed(replies) == \E k \in 1..Len(replies) : ~replies[k].ok

\* The state holds both tokens and a redirect.
HoldsCredentials(text) == text \in AuthorizedStates

\* The state is absent or empty, or an object lacking tokens or lacking redirect.
NoCredentials(text) ==
  \/ text.t \in {"undef", "empty"}
  \/ /\ text.t = "obj"
     /\ \/ \A k \in 1..Len(text.kv) : text.kv[k][1] # "tokens"
        \/ \A k \in 1..Len(text.kv) : text.kv[k][1] # "redirect"

IsLoginForm(f) == Len(f.fields) = 1 /\ f.fields[1].name = "login"

HasField(f, name) == \E k \in 1..Len(f.fields) : f.fields[k].name = name

\* C1: in oauthFetchInfo, whenever decryption of the state parameter fails
\* (tampered, foreign-key, corrupted or missing blob), the call rejects with
\* the decryption error, and neither the token exchange nor the POST to a
\* return URL is made in that invocation.
OAuthRedirectFailsClosed ==
  \A i \in Slots :
    LET s == inv[i]
        d == decrypt(s.request.urlParams.state)
    IN (s.op = "google_drive.oauthFetchInfo" /\ ~d.ok)
         => /\ s.status = "rejected"
            /\ s.err = <<d.err>>
            /\ ~Made(s, "getToken")
            /\ ~Made(s, "https.post")

\* C1 witness: a tampered state issued by the hub has been fed to
\* oauthFetchInfo, which rejected.
OAuthTamperedStateRejected ==
  \E i \in Slots :
    /\ inv[i].op = "google_drive.oauthFetchInfo"
    /\ inv[i].request.urlParams.state.key = HubKey
    /\ ~inv[i].request.urlParams.state.intact
    /\ inv[i].status = "rejected"
    /\ Fns(inv[i]) = <<"decrypt">>

\* C2: when the state a login form built for return URL U embeds is fed
\* back unmodified to oauthFetchInfo with redirect URI R, the state is
\* decrypted, then the code is exchanged, and once the exchange yields tokens
\* T exactly one POST is made, to U, with body {tokens: T, redirect: R}; the
\* calls are made in the order decrypt, token exchange, POST.
OAuthHappyPathRoundTrip ==
  \A i \in Slots :
    LET s == inv[i]
        U == s.issuedFor
        R == s.request.redirectUri
    IN (s.op = "google_drive.oauthFetchInfo" /\ Truthy(U))
         => /\ Len(s.calls) >= 2
            /\ s.calls[1].fn = "decrypt"
            /\ s.calls[2] = [fn |-> "getToken",
                             arg |-> [redirect |-> R, code |-> s.request.urlParams.code]]
            /\ JSONparse(s.loc.plaintext).obj.stateurl = U
            /\ s.replies = <<>> => (s.pc = "getToken" /\ Len(s.calls) = 2)
            /\ (s.replies # <<>> /\ ~s.replies[1].ok)
                 => (s.status = "rejected" /\ Len(s.calls) = 2)
            /\ (s.replies # <<>> /\ s.replies[1].ok)
                 => LET T == s.replies[1].tokens
                        post == s.calls[3]
                        body == JSONparse(post.arg.body)
                    IN /\ Fns(s) = <<"decrypt", "getToken", "https.post">>
                       /\ post.arg.url = U
                       /\ body.ok /\ ~body.isNull
                       /\ body.obj = [k \in Keys |->
                                        CASE k = "tokens"   -> T
                                          [] k = "redirect" -> R
                                          [] OTHER          -> UNDEF]
                       /\ s.status # "rejected"
                       /\ Len(s.replies) = 2 => s.status = "resolved"

\* C2 witness: a state issued for a return URL has gone through decryption,
\* token exchange and the POST, and oauthFetchInfo has returned.
OAuthRoundTripCompleted ==
  \E i \in Slots :
    /\ inv[i].op = "google_drive.oauthFetchInfo"
    /\ inv[i].issuedFor = "https://looker.example/state/u2"
    /\ inv[i].status = "resolved"
    /\ Len(inv[i].replies) = 2 /\ AllOk(inv[i].replies)
    /\ inv[i].calls[3].arg.url = "https://looker.example/state/u2"

\* C3: whenever a request carries state_json with tokens and redirect and the
\* provider rejects the reconstructed client (permission revoked, token
\* expired) during oauthCheck or execute, the outcome is success=false with
\* the response state "reset"; the rejection is not a thrown fault, nor a
\* failure without the reset sentinel.
ProviderRejectionResets ==
  \A i \in Slots :
    LET s == inv[i]
    IN (/\ s.op \in {"google_drive.execute", "google_drive.oauthCheck"}
        /\ HoldsCredentials(s.request.params.state_json)
        /\ Over(s)
        /\ s.replies # <<>> /\ ~s.replies[1].ok /\ s.replies[1].err.status \in {401, 403})
         => /\ s.status = "resolved"
            /\ ~s.resp.success
            /\ s.resp.state = "reset"

\* C4: whenever form is called with state_json absent or empty, or an object
\* lacking tokens or lacking redirect, no Drive API call is made, the call
\* rejects only if encrypting the login state fails, and the form returned
\* has exactly one field, login, whose oauth_url is
\* <base>/actions/google_drive/oauth?state=<encrypt({stateurl: state_url})>.
NoCredentialsLoginOnly ==
  \A i \in Slots :
    LET s == inv[i]
        request == s.request
    IN (s.op = "google_drive.form" /\ NoCredentials(request.params.state_json))
         => /\ ~Made(s, "drives.list") /\ ~Made(s, "files.list")
            /\ Fns(s) = <<"encrypt">>
            /\ s.pc = "encrypt" => s.replies = <<>>
            /\ Over(s) => (s.status = "resolved" <=> s.replies[1].ok)
            /\ s.status = "resolved"
                 => /\ IsLoginForm(s.form)
                    /\ s.form.fields[1].oauth_url =
                         [base   |-> ACTION_HUB_BASE_URL,
                          action |-> "google_drive",
                          state  |-> encrypt(TObj(IF request.params.state_url = UNDEF
                                                  THEN <<>>
                                                  ELSE << <<"stateurl",
                                                            request.params.state_url>> >>))]

\* C4 witness: form has returned the login form for a state that holds
\* tokens and no redirect.
LoginFormForPartialState ==
  \E i \in Slots :
    /\ inv[i].op = "google_drive.form"
    /\ inv[i].request.params.state_json = TObj(<< <<"tokens", "T1">> >>)
    /\ inv[i].request.params.state_url = "https://looker.example/state/u1"
    /\ inv[i].status = "resolved"
    /\ IsLoginForm(inv[i].form)

\* C5: starting from a state_json that holds tokens T and redirect R, in every
\* sequence of form rounds in which the caller echoes the returned state as
\* the next state_json (with any formParams) and the provider calls succeed,
\* every returned form is an authorized form (no login field) whose state
\* decodes to exactly {tokens: T, redirect: R}; and form called again with
\* the same request and the same provider replies returns the same outcome.
AuthorizedStateStable ==
  \A i \in Slots :
    LET s == inv[i]
    IN /\ (s.op = "google_drive.form" /\ s.origin # NoOrigin /\ Over(s) /\ AllOk(s.replies))
            => LET decoded == JSONparse(s.form.state)
               IN /\ s.status = "resolved"
                  /\ ~HasField(s.form, "login")
                  /\ HasField(s.form, "drive")
                  /\ TruthyText(s.form.state)
                  /\ decoded.ok /\ ~decoded.isNull
                  /\ decoded.obj = [k \in Keys |->
                                      CASE k = "tokens"   -> s.origin.tokens
                                        [] k = "redirect" -> s.origin.redirect
                                        [] OTHER          -> UNDEF]
       /\ (s.op = "google_drive.form" /\ s.replay /\ Over(s))
            => /\ s.status = s.expect.status
               /\ s.form = s.expect.form
               /\ s.err = s.expect.err
               /\ s.script = <<>>

\* C5 witness: the last round of a chain of echoed form rounds has returned
\* an authorized form with folders listed, a second time with the same replies.
SecondEchoedRoundReplayed ==
  \E i \in Slots :
    /\ inv[i].op = "google_drive.form"
    /\ inv[i].round = MaxRounds
    /\ inv[i].replay
    /\ inv[i].status = "resolved"
    /\ AllOk(inv[i].replies)
    /\ HasField(inv[i].form, "folder")
    /\ inv[i].origin.tokens = "T2"

\* An SFTP address with a host and a path.
WellFormed(address) ==
  /\ URL(address).ok
  /\ URL(address).hostname # ""
  /\ URL(address).pathname # <<>>

HasData(request) == request.attachment.present /\ request.attachment.dataBuffer # UNDEF

Last(seq) == seq[Len(seq)]

\* C6: SFTP execute with the form field address absent, and an attachment
\* with a data buffer present, returns a response with success=false (rather
\* than a thrown or rejected fault), and opens no connection and puts nothing.
SftpMissingAddressIsFailedResponse ==
  \A i \in Slots :
    LET s == inv[i]
    IN (/\ s.op = "sftp.execute" /\ Over(s)
        /\ HasData(s.request)
        /\ s.request.formParams.address = UNDEF)
         => /\ s.status = "resolved"
            /\ ~s.resp.success
            /\ ~Made(s, "connect") /\ ~Made(s, "put")

\* C7: for every SFTP execute with an attachment data buffer D and a
\* well-formed address, once connect succeeds exactly one put is issued, with
\* data D and the address's path joined with formParams.filename when that
\* is non-empty, else with the suggested filename; once the put succeeds
\* execute resolves with success=true.
SftpSuccessPath ==
  \A i \in Slots :
    LET s == inv[i]
        request == s.request
        name == IF request.formParams.filename \notin {UNDEF, ""}
                THEN request.formParams.filename
                ELSE suggestedFilename(request)
    IN (/\ s.op = "sftp.execute"
        /\ HasData(request)
        /\ WellFormed(request.formParams.address))
         => /\ s.pc # "hung" \/ (s.replies # <<>> /\ ~s.replies[1].ok)
            /\ s.status # "rejected"
            /\ (s.replies # <<>> /\ s.replies[1].ok)
                 => /\ Fns(s) = <<"connect", "put">>
                    /\ s.calls[2].arg.data = request.attachment.dataBuffer
                    /\ s.calls[2].arg.remotePath =
                         PathJoin(URL(request.formParams.address).pathname, NameTokens(name))
                    /\ (request.formParams.address = "sftp://host/path/"
                          /\ request.formParams.filename = "out.csv")
                         => s.calls[2].arg.remotePath = <<"/", "path", "/", "out.csv">>
                    /\ (request.formParams.address = "sftp://host:2222/dir"
                          /\ request.formParams.filename = "")
                         => s.calls[2].arg.remotePath = <<"/", "dir", "/", "looker_file.csv">>
            /\ (Len(s.replies) = 2 /\ AllOk(s.replies))
                 => (s.status = "resolved" /\ s.resp.success)

\* C7 witness: an SFTP execute with a filename chosen in the form has put the
\* attachment's bytes and resolved with success.
SftpDelivered ==
  \E i \in Slots :
    /\ inv[i].op = "sftp.execute"
    /\ inv[i].request.formParams.filename = "out.csv"
    /\ inv[i].request.attachment.dataBuffer = "bytes-2"
    /\ inv[i].status = "resolved"
    /\ inv[i].resp.success
    /\ Count(inv[i], "put") = 1

\* C8: whenever a destination call made during execute fails (Google Drive
\* files.create; SFTP connect or put), execute resolves with a response whose
\* success is false and whose message is the vendor error's message.
DestinationFailuresBecomeResponses ==
  \A i \in Slots :
    LET s == inv[i]
    IN (/\ s.op \in {"google_drive.execute", "sftp.execute"}
        /\ Over(s)
        /\ SomeFailed(s.replies))
         => /\ s.status = "resolved"
            /\ ~s.resp.success
            /\ s.resp.message = Last(s.replies).err.message

\* C9: for a Google Drive execute whose state_json holds tokens and redirect,
\* whose formParams.filename is empty or absent and whose request has no
\* suggested filename, execute resolves with success=false, a structured
\* bad-request (4xx) error, message equal to the error's message and webhookId
\* equal to the request's, and files.create is never called.
DriveExecuteValidatesFilename ==
  \A i \in Slots :
    LET s == inv[i]
        request == s.request
    IN (/\ s.op = "google_drive.execute"
        /\ HoldsCredentials(request.params.state_json)
        /\ request.formParams.filename \in {UNDEF, ""}
        /\ suggestedFilename(request) = UNDEF)
         => /\ s.status = "resolved"
            /\ ~s.resp.success
            /\ s.resp.error.http_code = HTTP_ERROR.bad_request.code
            /\ s.resp.error.http_code \in 400..499
            /\ s.resp.error.status_code = "BAD_REQUEST"
            /\ s.resp.error.message # <<>>
            /\ s.resp.message = s.resp.error.message
            /\ s.resp.webhookId = request.webhookId
            /\ request.webhookId # UNDEF
            /\ s.resp.state = UNDEF
            /\ ~Made(s, "files.create")

\* C9 witness: an authorized execute without any filename has returned.
DriveExecuteWithoutFilename ==
  \E i \in Slots :
    /\ inv[i].op = "google_drive.execute"
    /\ HoldsCredentials(inv[i].request.params.state_json)
    /\ inv[i].request.formParams.filename = ""
    /\ ~inv[i].request.attachment.present
    /\ inv[i].loc.client.built
    /\ inv[i].status = "resolved"

\* C10: in form with formParams.search present, if any one of the paginated
\* files.list calls fails (the first page or a later one), the form still
\* comes back as an authorized form with the folder field, whose options are
\* Drive Root followed by the folders of the pages that succeeded.
PaginationFailureKeepsForm ==
  \A i \in Slots :
    LET s == inv[i]
    IN (/\ s.op = "google_drive.form" /\ Over(s)
        /\ HoldsCredentials(s.request.params.state_json)
        /\ s.request.formParams.search # UNDEF
        /\ \E k \in 1..Len(s.replies) :
             /\ s.calls[k].fn = "files.list" /\ ~s.replies[k].ok
             /\ \A j \in 1..Len(s.replies) : j # k => s.replies[j].ok)
         => /\ s.status = "resolved"
            /\ ~HasField(s.form, "login")
            /\ \E k \in 1..Len(s.form.fields) :
                 /\ s.form.fields[k].name = "folder"
                 /\ s.form.fields[k].options =
                      <<[name |-> "root", label |-> "Drive Root"]>> \o folderOptions(s.loc.files)

\* The field of a form with the given name; a field of no name when absent.
FieldNamed(f, name) ==
  IF HasField(f, name)
  THEN f.fields[CHOOSE k \in 1..Len(f.fields) : f.fields[k].name = name]
  ELSE Field(UNDEF, UNDEF)

FieldNames(f) == [k \in 1..Len(f.fields) |-> f.fields[k].name]

\* C11: for every form request whose state_json holds tokens and redirect and
\* whose provider calls all succeed, whatever of drive, fetch and search is
\* present in formParams, form does not throw or reject, and the form it
\* returns has the interactive field drive, with mydrive as first option and
\* default, and the interactive field fetch, with the options reset and fetch.
InteractiveFieldsNeverSkipped ==
  \A i \in Slots :
    LET s == inv[i]
        drive == FieldNamed(s.form, "drive")
        fetch == FieldNamed(s.form, "fetch")
    IN (/\ s.op = "google_drive.form"
        /\ HoldsCredentials(s.request.params.state_json)
        /\ AllOk(s.replies))
         => /\ s.status # "rejected" /\ s.thrown = <<>>
            /\ ~Made(s, "encrypt")
            /\ Over(s) =>
                 /\ s.status = "resolved"
                 /\ drive.name = "drive" /\ drive.interactive
                 /\ drive.options[1] = [name |-> "mydrive", label |-> "My Drive"]
                 /\ drive.default = "mydrive"
                 /\ fetch.name = "fetch" /\ fetch.interactive
                 /\ fetch.options = <<[name |-> "reset", label |-> "Reset"],
                                      [name |-> "fetch", label |-> "Fetch Folders"]>>

\* C11 witness: a form request that carries a fetch value and a search value
\* but no drive value has been answered with an authorized form.
FormWithFetchSelected ==
  \E i \in Slots :
    /\ inv[i].op = "google_drive.form"
    /\ HoldsCredentials(inv[i].request.params.state_json)
    /\ inv[i].request.formParams.fetch = "fetch"
    /\ inv[i].request.formParams.search = "rep"
    /\ inv[i].request.formParams.drive = UNDEF
    /\ AllOk(inv[i].replies)
    /\ inv[i].status = "resolved"
    /\ HasField(inv[i].form, "fetch")

RECURSIVE Listed(_, _)
\* The files of the pages the provider has delivered to the first k calls of
\* an invocation, in order.
Listed(s, k) ==
  IF k = 0 THEN <<>>
  ELSE Listed(s, k - 1)
       \o (IF s.calls[k].fn = "files.list" /\ s.replies[k].ok
           THEN s.replies[k].files ELSE <<>>)

IsNamedFolder(file) == file.id # UNDEF /\ file.name # UNDEF

\* C12: for a form request whose state_json holds tokens and redirect: when
\* formParams.search is undefined, no files.list call is made and an
\* authorized form has exactly the fields drive, fetch, search, in that
\* order; when formParams.search is defined (the empty string included), an
\* authorized form has exactly the fields drive, folder, filename, fetch,
\* search, in that order, and the folder options are root (Drive Root, also
\* the default) followed by the listed files that have both an id and a name.
FormShapeFollowsRound ==
  \A i \in Slots :
    LET s == inv[i]
        folder == FieldNamed(s.form, "folder")
        named == SelectSeq(Listed(s, Len(s.replies)), IsNamedFolder)
    IN (s.op = "google_drive.form" /\ HoldsCredentials(s.request.params.state_json))
         => /\ s.request.formParams.search = UNDEF => ~Made(s, "files.list")
            /\ (s.status = "resolved" /\ ~HasField(s.form, "login")) =>
                 IF s.request.formParams.search = UNDEF
                 THEN FieldNames(s.form) = <<"drive", "fetch", "search">>
                 ELSE /\ FieldNames(s.form) =
                           <<"drive", "folder", "filename", "fetch", "search">>
                      /\ folder.options[1] = [name |-> "root", label |-> "Drive Root"]
                      /\ folder.default = "root"
                      /\ Len(folder.options) = 1 + Len(named)
                      /\ \A k \in 1..Len(named) :
                           folder.options[k + 1] =
                             [name |-> named[k].id, label |-> named[k].name]

\* C12 witness: a form request with the empty string as search has been
\* answered with the five fields, a listed file without a name left out of
\* the folder options.
FormForEmptySearch ==
  \E i \in Slots :
    /\ inv[i].op = "google_drive.form"
    /\ HoldsCredentials(inv[i].request.params.state_json)
    /\ inv[i].request.formParams.search = ""
    /\ inv[i].status = "resolved"
    /\ Len(inv[i].form.fields) = 5
    /\ Len(Listed(inv[i], Len(inv[i].replies))) = 2
    /\ Len(FieldNamed(inv[i].form, "folder").options) = 2

\* C13: whenever form returns an authorized form, the state it hands to the
\* caller is the codec's encryption of {tokens, redirect}: the tokens do not
\* appear in plaintext in form.state.
AuthorizedFormStateEncrypted ==
  \A i \in Slots :
    LET s == inv[i]
        plaintext == JSONstringify(<< <<"tokens", s.loc.tokens>>,
                                      <<"redirect", s.loc.redirect>> >>)
    IN (/\ s.op = "google_drive.form" /\ s.status = "resolved"
        /\ HasField(s.form, "drive"))
         => /\ s.form.hasState
            /\ s.form.state # plaintext
            /\ s.form.state = encrypt(plaintext)

\* C15: an SFTP execute on a request with no attachment, or with an
\* attachment that has no dataBuffer, fails with "Couldn't get data from
\* attachment." whatever the address is, a missing address included, and
\* never opens a connection or calls put.
SftpRequiresBuffer ==
  \A i \in Slots :
    LET s == inv[i]
    IN (s.op = "sftp.execute" /\ ~HasData(s.request))
         => /\ s.status = "rejected"
            /\ s.err = <<"Couldn't get data from attachment.">>
            /\ s.calls = <<>>
            /\ s.thrown = <<>>

\* C15 witness: an SFTP execute on a request that has neither an attachment
\* nor an address has been rejected.
SftpMissingBufferAndAddress ==
  \E i \in Slots :
    /\ inv[i].op = "sftp.execute"
    /\ ~inv[i].request.attachment.present
    /\ inv[i].request.formParams.address = UNDEF
    /\ inv[i].status = "rejected"

\* C16: every invocation of SFTP execute settles: once nothing more is
\* scheduled that could act on the promise execute returned, whatever the
\* address was and whether or not the connect attempt succeeded, the promise
\* has been resolved with an ActionResponse or rejected; it is never left
\* pending.
SftpExecuteSettles ==
  \A i \in Slots :
    LET s == inv[i]
    IN (s.op = "sftp.execute" /\ s.pc \notin {"connect", "put"})
         => Settled(s)

\* The state is absent or empty, or well-formed JSON that holds no tokens or
\* no redirect: an object lacking one of them, or null.
LacksCredentials(text) == NoCredentials(text) \/ text = TNull

\* C17: for every Google Drive execute whose state_json is absent, empty, or
\* well-formed JSON lacking tokens or lacking redirect, execute returns
\* success=false with state.data = "reset", builds no Drive client and sends
\* no data; and for every execute whose state_json holds both tokens and
\* redirect, the response never carries the reset sentinel.
DriveExecuteResetsExactlyWithoutCredentials ==
  \A i \in Slots :
    LET s == inv[i]
        text == s.request.params.state_json
    IN s.op = "google_drive.execute"
         => /\ LacksCredentials(text) =>
                 /\ s.status = "resolved"
                 /\ ~s.resp.success
                 /\ s.resp.state = "reset"
                 /\ ~s.loc.client.built
                 /\ s.calls = <<>>
            /\ HoldsCredentials(text) => s.resp.state # "reset"

Logged(s, line) == \E k \in 1..Len(s.logs) : s.logs[k] = line

\* C18: in form with formParams.search present, if the first files.list call
\* fails, with whatever status (401 and 403 included), the form is returned
\* as an authorized form whose folder field has exactly one option, root
\* (Drive Root); and "cannot fetch folders" is never logged.
FirstPageFailureFallsBack ==
  \A i \in Slots :
    LET s == inv[i]
    IN /\ ~Logged(s, "cannot fetch folders")
       /\ (/\ s.op = "google_drive.form"
           /\ s.request.formParams.search # UNDEF
           /\ Len(s.replies) >= 2
           /\ s.calls[2].fn = "files.list" /\ ~s.replies[2].ok)
            => /\ s.status = "resolved"
               /\ ~HasField(s.form, "login")
               /\ HasField(s.form, "drive")
               /\ FieldNamed(s.form, "folder").options =
                    <<[name |-> "root", label |-> "Drive Root"]>>
               /\ Logged(s, "No folders found")
               /\ Count(s, "files.list") = 1

\* C18 witness: the first files.list of a form was refused with status 403
\* and the form came back with the folder field.
FirstPageForbidden ==
  \E i \in Slots :
    /\ inv[i].op = "google_drive.form"
    /\ Len(inv[i].replies) = 2
    /\ inv[i].calls[2].fn = "files.list"
    /\ ~inv[i].replies[2].ok /\ inv[i].replies[2].err.status = 403
    /\ inv[i].status = "resolved"
    /\ HasField(inv[i].form, "folder")

\* Building the authorized form failed: the state is not JSON that parses to
\* an object, or drives.list failed, or a files.list after the first failed.
FormFault(s) ==
  \/ s.request.params.state_json \in MalformedTexts
  \/ /\ Len(s.replies) >= 1
     /\ s.calls[1].fn = "drives.list" /\ ~s.replies[1].ok
  \/ \E k \in 3..Len(s.replies) :
       s.calls[k].fn = "files.list" /\ ~s.replies[k].ok

\* C19: whenever params.state_json is present but building the authorized
\* form fails (state_json is not valid JSON, drives.list fails, or a
\* later-page files.list fails), form does not reject but returns the
\* login-only form; form rejects only when encrypting the login state fails.
FormDegradesToLogin ==
  \A i \in Slots :
    LET s == inv[i]
        n == Len(s.replies)
        encryptFailed == /\ n >= 1
                         /\ s.calls[n].fn = "encrypt" /\ ~s.replies[n].ok
    IN s.op = "google_drive.form"
         => /\ s.thrown = <<>>
            /\ s.status = "rejected" => encryptFailed
            /\ (/\ TruthyText(s.request.params.state_json)
                /\ FormFault(s) /\ Over(s) /\ ~encryptFailed)
                 => (s.status = "resolved" /\ IsLoginForm(s.form))

\* C19 witness: a later page of files.list failed and the form came back as
\* the login form.
LaterPageFailureGaveLogin ==
  \E i \in Slots :
    /\ inv[i].op = "google_drive.form"
    /\ Len(inv[i].replies) = 4
    /\ inv[i].calls[3].fn = "files.list" /\ ~inv[i].replies[3].ok
    /\ inv[i].status = "resolved"
    /\ IsLoginForm(inv[i].form)

\* C20: oauthFetchInfo rejects exactly when decryption of the state or the
\* token exchange fails; when the state decrypts and the code is exchanged
\* for tokens it resolves even if the POST of {tokens, redirect} to the
\* caller's return URL fails, the failure being only logged.
OAuthFetchInfoRejectsExactly ==
  \A i \in Slots :
    LET s == inv[i]
        decrypted == decrypt(s.request.urlParams.state)
        exchanged == /\ Len(s.replies) >= 1
                     /\ s.calls[2].fn = "getToken" /\ s.replies[1].ok
        exchangeFailed == /\ Len(s.replies) >= 1
                          /\ s.calls[2].fn = "getToken" /\ ~s.replies[1].ok
    IN (s.op = "google_drive.oauthFetchInfo" /\ Over(s))
         => /\ Settled(s)
            /\ s.status = "rejected" <=> (~decrypted.ok \/ exchangeFailed)
            /\ (decrypted.ok /\ exchanged) =>
                 /\ s.status = "resolved"
                 /\ Count(s, "https.post") = 1
                 /\ Len(s.replies) = 2
                 /\ ~s.replies[2].ok => (Logged(s, "post failed") /\ s.err = <<>>)

\* C20 witness: the tokens were obtained, the POST to the return URL failed,
\* and oauthFetchInfo resolved all the same.
OAuthCompletedWithoutDelivery ==
  \E i \in Slots :
    /\ inv[i].op = "google_drive.oauthFetchInfo"
    /\ Len(inv[i].replies) = 2
    /\ inv[i].replies[1].ok /\ inv[i].replies[1].tokens = "T1"
    /\ ~inv[i].replies[2].ok
    /\ inv[i].status = "resolved"

\* C14: form, execute, oauthCheck and oauthFetchInfo never modify a field of
\* the action instance or any other state shared between requests, so in
\* every interleaving of two requests served at once by the same registered
\* action each request's calls, logs and response are those it gets when
\* served alone with the same destination replies.
RequestsIndependent ==
  /\ registry = [google_drive |-> GoogleDriveAction, sftp |-> SFTPAction]
  /\ \A i \in DOMAIN inv :
       inv[i].op # "none"
         => inv[i] = RunAlone(EntryOf(inv[i].op, inv[i].request), inv[i].replies)

\* C14 witness: two requests are in flight on the same action at once: a
\* form request, answered by drives.list, waits for its files.list while an
\* execute waits for its files.create.
TwoRequestsInterleaved ==
  /\ inv["r1"].op = "google_drive.form" /\ inv["r1"].pc = "files.list"
  /\ Len(inv["r1"].replies) = 1
  /\ inv["r2"].op = "google_drive.execute" /\ inv["r2"].pc = "files.create"
  /\ inv["r2"].request.attachment.mime = "text/csv"

====
